---- MODULE Spec2Model ----
(***************************************************************************)
(* Model of the kerbrute probing session (session/session.go):             *)
(* configuration rendering, session construction, the username and login   *)
(* probes and the AS-REP hash export.  Strings are sequences of            *)
(* one-character strings; the rendered configuration is a sequence of      *)
(* lines, each line a sequence of tokens.                                  *)
(***************************************************************************)
EXTENDS Integers, Sequences, FiniteSets, TLC

VARIABLES
    phase,      \* "new" | "constructed" | "failed" | "panicked": NewKerbruteSession's exit
    session,    \* the KerbruteSession value NewKerbruteSession returned (k)
    nerr,       \* the error NewKerbruteSession returned (err)
    sink,       \* content of the file behind HashFile, a sequence of tokens
    proc,       \* per goroutine: the probe call in progress and its locals
    calls,      \* number of probe calls started so far
    tRealm,     \* buildKrb5Template argument realm
    tDC,        \* buildKrb5Template argument domainController
    tOut        \* buildKrb5Template result (<<>> until rendered)

vars == <<phase, session, nerr, sink, proc, calls, tRealm, tDC, tOut>>

\* ------------------------------------------------------------------ bounds

\* Total number of probe calls (TestUsername / TestLogin) in one run.
MaxCalls == 2

\* Longest realm / domain controller string given to buildKrb5Template.
MaxLen == 2

\* ------------------------------------------------------------- constants

\* iana/etypeID RC4_HMAC, the value written at session.go:106.
ETYPE_RC4 == 23

\* Encryption types an AS-REP may carry: des-cbc-md5 (3),
\* aes256-cts-hmac-sha1-96 (18) and arcfour-hmac-md5 (23).
ETypes == {3, 18, ETYPE_RC4}

\* errorcode.KDC_ERR_PREAUTH_REQUIRED, the case at session.go:194.
KDC_ERR_PREAUTH_REQUIRED == 25

\* Error codes a KRBError reply may carry: KDC_ERR_C_PRINCIPAL_UNKNOWN (6)
\* and KDC_ERR_PREAUTH_REQUIRED.
ErrorCodes == {6, KDC_ERR_PREAUTH_REQUIRED}

\* --------------------------------------------------------------- strings

Goroutines == {1, 2}

\* Characters of the strings handed to buildKrb5Template.
Alphabet == {"a", "D", ".", "&", "+"}

RECURSIVE StringsUpTo(_)
StringsUpTo(n) ==
    IF n = 0 THEN {<<>>}
    ELSE LET S == StringsUpTo(n - 1)
         IN  S \cup {Append(s, c) : s \in {x \in S : Len(x) = n - 1}, c \in Alphabet}

\* unicode.ToUpper on one character.
ToUpperChar(c) ==
    CASE c = "a" -> "A"
      [] c = "c" -> "C"
      [] c = "d" -> "D"
      [] c = "o" -> "O"
      [] OTHER   -> c

\* strings.ToUpper.
ToUpper(s) == [i \in 1..Len(s) |-> ToUpperChar(s[i])]

\* html/template's escaper for one character in text context: the
\* replacement table of the html escaper ('"', '&', ''', '+', '<', '>').
HTMLEscapeChar(c) ==
    CASE c = "&"  -> <<"&", "a", "m", "p", ";">>
      [] c = "+"  -> <<"&", "#", "4", "3", ";">>
      [] c = "<"  -> <<"&", "l", "t", ";">>
      [] c = ">"  -> <<"&", "g", "t", ";">>
      [] c = "'"  -> <<"&", "#", "3", "9", ";">>
      [] c = "\"" -> <<"&", "#", "3", "4", ";">>
      [] OTHER    -> <<c>>

RECURSIVE HTMLEscape(_)
HTMLEscape(s) ==
    IF s = <<>> THEN <<>> ELSE HTMLEscapeChar(Head(s)) \o HTMLEscape(Tail(s))

\* An action {{.X}} of a template parsed by html/template: the value is
\* passed through the HTML escaper before it is written.
Interpolate(s) == HTMLEscape(s)

\* const krb5ConfigTemplateDNS, executed with the given realm.
krb5ConfigTemplateDNS(realm) ==
    << <<"[libdefaults]">>,
       <<"dns_lookup_kdc = true">>,
       <<"default_realm = ">> \o Interpolate(realm) >>

\* const krb5ConfigTemplateKDC, executed with realm and domain controller.
krb5ConfigTemplateKDC(realm, domainController) ==
    << <<"[libdefaults]">>,
       <<"default_realm = ">> \o Interpolate(realm),
       <<"[realms]">>,
       Interpolate(realm) \o <<" = {">>,
       <<"\t", "kdc = ">> \o Interpolate(domainController),
       <<"\t", "admin_server = ">> \o Interpolate(domainController),
       <<"}">> >>

buildKrb5Template(realm, domainController) ==
    IF domainController = <<>>
    THEN krb5ConfigTemplateDNS(realm)
    ELSE krb5ConfigTemplateKDC(realm, domainController)

\* ---------------------------------------------------------------- errors

NilErr == [kind |-> "nil", code |-> 0, msg |-> ""]

\* A non-Kerberos error value (fmt.Errorf, *os.PathError, krberror.Krberror ...).
OtherErr(m) == [kind |-> "other", code |-> 0, msg |-> m]

\* A messages.KRBError value carrying ErrorCode c.
KRBError(c) == [kind |-> "krb", code |-> c, msg |-> "KRBError"]

\* --------------------------------------------------------------- session

NilConfig == [isNil |-> TRUE, etypes |-> <<>>, socks5 |-> "", hasContext |-> FALSE]

\* The zero KerbruteSession, the named result k before line 116.
ZeroSession ==
    [Domain |-> <<>>, Realm |-> <<>>, Kdcs |-> <<>>, ConfigString |-> <<>>,
     Config |-> NilConfig, Verbose |-> FALSE, SafeMode |-> FALSE, HashFile |-> "nil"]

\* The option values construction is run with.
OptionSet ==
    [Domain : {<<>>, <<"c", "o">>},
     DomainController : {<<>>, <<"d", "c">>},
     Verbose : {FALSE},
     SafeMode : BOOLEAN,
     Downgrade : BOOLEAN,
     HashFilename : {"", "hashes.txt", "/nodir/hashes.txt"},
     Socks5Proxy : {"", "127.0.0.1:1080"}]

\* os.OpenFile(name, O_APPEND|O_WRONLY|O_CREATE, 0644): fails when the
\* directory of the path does not exist.
OpenFile(name) ==
    IF name = "/nodir/hashes.txt"
    THEN [file |-> "nil", err |-> OtherErr("open: no such file or directory")]
    ELSE [file |-> "open", err |-> NilErr]

\* kconfig.NewFromString followed by EnableSocks5, WithContext and the
\* downgrade of DefaultTktEnctypeIDs (lines 81-108).  The configuration
\* rendered from OptionSet's values parses, so the panic of line 83 is not
\* taken.
BuildConfig(options) ==
    [isNil |-> FALSE,
     etypes |-> IF options.Downgrade THEN <<ETYPE_RC4>>
                ELSE <<18, ETYPE_RC4, 3>>,
     socks5 |-> options.Socks5Proxy,
     hasContext |-> TRUE]

\* The outcomes of configWithContext.GetKDCs(realm, false): with an explicit
\* domain controller its address; with DNS discovery the SRV answer, which
\* may be missing.  The library reports an error exactly when it found none.
GetKDCs(options) ==
    IF options.DomainController # <<>>
    THEN {[kdcs |-> <<options.DomainController \o <<":88">> >>, err |-> NilErr]}
    ELSE {[kdcs |-> <<>>, err |-> OtherErr("no KDC SRV records found")],
          [kdcs |-> << <<"srv1:88">>, <<"srv2:88">> >>, err |-> NilErr]}

\* NewKerbruteSession, lines 111-127: the KDC lookup and the return.
ResolveAndReturn(options, hashFile, realm, configstring) ==
    \E r \in GetKDCs(options) :
        LET err == IF r.err # NilErr
                   THEN OtherErr("Couldn't find any KDCs for realm")
                   ELSE NilErr
        IN  /\ session' = [Domain |-> options.Domain, Realm |-> realm,
                           Kdcs |-> r.kdcs, ConfigString |-> configstring,
                           Config |-> BuildConfig(options),
                           Verbose |-> options.Verbose,
                           SafeMode |-> options.SafeMode, HashFile |-> hashFile]
            /\ nerr' = err
            /\ phase' = IF err = NilErr THEN "constructed" ELSE "failed"

NewKerbruteSession(options) ==
    /\ phase = "new"
    /\ IF options.Domain = <<>>
       THEN /\ session' = ZeroSession
            /\ nerr' = OtherErr("domain must not be empty")
            /\ phase' = "failed"
       ELSE LET opened == IF options.HashFilename # ""
                          THEN OpenFile(options.HashFilename)
                          ELSE [file |-> "nil", err |-> NilErr]
                realm == ToUpper(options.Domain)
                configstring == buildKrb5Template(realm, options.DomainController)
            IN  IF opened.err # NilErr
                THEN /\ session' = ZeroSession
                     /\ nerr' = opened.err
                     /\ phase' = "failed"
                ELSE ResolveAndReturn(options, opened.file, realm, configstring)
    /\ UNCHANGED <<sink, proc, calls, tRealm, tDC, tOut>>

Construct == \E options \in OptionSet : NewKerbruteSession(options)

\* ---------------------------------------------------------------- probes

NoResp == [kind |-> "none", code |-> 0, etype |-> 0]

\* What cl.SendToKDC can hand back: a valid AS-REP, bytes that are neither
\* an AS-REP nor a KRBError, a KRBError reply, or a transport failure.
Responses ==
    {[kind |-> "asrep", code |-> 0, etype |-> e] : e \in ETypes}
    \cup {[kind |-> "garbage", code |-> 0, etype |-> 0]}
    \cup {[kind |-> "krberr", code |-> c, etype |-> 0] : c \in ErrorCodes}
    \cup {[kind |-> "neterr", code |-> 0, etype |-> 0]}

\* Usernames given to the probes; TestLogin may also be given none.
Usernames == {"alice"}

LoginUsernames == Usernames \cup {""}

IdleProc ==
    [pc |-> "idle", kind |-> "none", user |-> "", resp |-> NoResp,
     ok |-> FALSE, err |-> NilErr, sends |-> 0,
     live |-> FALSE, destroys |-> 0, wrote |-> "none", n |-> 0]

\* A return statement: the results are set and the call is over.
Return(c, ok, err) == [c EXCEPT !.pc = "done", !.ok = ok, !.err = err]

\* Client.Destroy, as deferred at line 151.
Destroy(c) == [c EXCEPT !.live = FALSE, !.destroys = @ + 1]

\* Variant of ReturnLogin without the deferred Destroy.
ReturnLogin_NoDefer(c, ok, err) == Return(c, ok, err)

\* A return statement of TestLogin: the deferred Destroy runs on the way out.
ReturnLogin(c, ok, err) == Destroy(Return(c, ok, err))

\* The caller takes the results; the goroutine is free for the next probe.
Finish(p) ==
    /\ proc[p].pc = "done"
    /\ proc' = [proc EXCEPT ![p] = IdleProc]
    /\ UNCHANGED <<phase, session, nerr, sink, calls, tRealm, tDC, tOut>>

\* ------------------------------------------------------------- TestLogin

\* TestLogin, line 150-151: the client is created and Destroy deferred.
StartLogin(p, username) ==
    /\ phase = "constructed"
    /\ proc[p].pc = "idle"
    /\ calls < MaxCalls
    /\ calls' = calls + 1
    /\ proc' = [proc EXCEPT ![p] =
                  [IdleProc EXCEPT !.pc = "configured", !.kind = "login",
                                   !.user = username, !.live = TRUE]]
    /\ UNCHANGED <<phase, session, nerr, sink, tRealm, tDC, tOut>>

\* Client.IsConfigured: a client without a username is not configured.
IsConfigured(c) ==
    IF c.user = ""
    THEN [ok |-> FALSE, err |-> OtherErr("client does not have a username")]
    ELSE [ok |-> TRUE, err |-> NilErr]

\* TestLogin, lines 152-154.
CheckConfigured(p) ==
    /\ proc[p].pc = "configured"
    /\ LET r == IsConfigured(proc[p])
       IN  proc' = [proc EXCEPT ![p] =
                      IF ~r.ok THEN ReturnLogin(@, FALSE, r.err)
                      ELSE [@ EXCEPT !.pc = "login"]]
    /\ UNCHANGED <<phase, session, nerr, sink, calls, tRealm, tDC, tOut>>

\* The errors Client.Login can return: nil, or a Kerberos or transport error.
LoginErrors ==
    {NilErr, KRBError(18), OtherErr("KDC_ERR_PREAUTH_FAILED"), OtherErr("dial tcp: timeout")}

\* TestLoginError: the login error is classified and handed back.
TestLoginError(err) == [ok |-> FALSE, err |-> err]

\* TestLogin, lines 155-160.
Login(p) ==
    /\ proc[p].pc = "login"
    /\ \E err \in LoginErrors :
         proc' = [proc EXCEPT ![p] =
                    IF err = NilErr THEN ReturnLogin(@, TRUE, err)
                    ELSE LET r == TestLoginError(err)
                         IN  ReturnLogin(@, r.ok, r.err)]
    /\ UNCHANGED <<phase, session, nerr, sink, calls, tRealm, tDC, tOut>>

\* ---------------------------------------------------------- TestUsername

\* Variant of StartUsername that restricts the shared configuration's
\* encryption types for the probe.
StartUsername_DowngradesConfig(p, username) ==
    /\ phase = "constructed"
    /\ proc[p].pc = "idle"
    /\ calls < MaxCalls
    /\ calls' = calls + 1
    /\ proc' = [proc EXCEPT ![p] =
                  [IdleProc EXCEPT !.pc = "marshal", !.kind = "username",
                                   !.user = username]]
    /\ session' = [session EXCEPT !.Config.etypes = <<ETYPE_RC4>>]
    /\ UNCHANGED <<phase, nerr, sink, tRealm, tDC, tOut>>

\* TestUsername, lines 166-171: the client and the AS-REQ are built; an
\* error of NewASReqForTGT is printed and the call goes on.
StartUsername(p, username) ==
    /\ phase = "constructed"
    /\ proc[p].pc = "idle"
    /\ calls < MaxCalls
    /\ calls' = calls + 1
    /\ proc' = [proc EXCEPT ![p] =
                  [IdleProc EXCEPT !.pc = "marshal", !.kind = "username",
                                   !.user = username]]
    /\ UNCHANGED <<phase, session, nerr, sink, tRealm, tDC, tOut>>

\* TestUsername, lines 172-175: req.Marshal() and its error return.
Marshal(p) ==
    /\ proc[p].pc = "marshal"
    /\ \E marshalled \in BOOLEAN :
         proc' = [proc EXCEPT ![p] =
                    IF marshalled THEN [@ EXCEPT !.pc = "send"]
                    ELSE Return(@, FALSE, OtherErr("marshal"))]
    /\ UNCHANGED <<phase, session, nerr, sink, calls, tRealm, tDC, tOut>>

\* TestUsername, line 176: the one exchange with the KDC.
SendToKDC(p) ==
    /\ proc[p].pc = "send"
    /\ \E r \in Responses :
         proc' = [proc EXCEPT ![p] =
                    [@ EXCEPT !.pc = "classify", !.resp = r, !.sends = @ + 1]]
    /\ UNCHANGED <<phase, session, nerr, sink, calls, tRealm, tDC, tOut>>

\* Variant of ClassifyResponse that takes every KRBError for a valid user.
ClassifyResponse_AnyKRBErrorValid(c) ==
    CASE c.resp.kind = "asrep"   -> [c EXCEPT !.pc = "dump"]
      [] c.resp.kind = "garbage" -> Return(c, FALSE, OtherErr("unmarshal"))
      [] c.resp.kind = "krberr"  -> Return(c, TRUE, NilErr)
      [] OTHER                   -> Return(c, FALSE, OtherErr("transport"))

\* Variant of ClassifyResponse that sends again after a transport failure.
ClassifyResponse_RetryOnTransport(c) ==
    CASE c.resp.kind = "asrep"   -> [c EXCEPT !.pc = "dump"]
      [] c.resp.kind = "garbage" -> Return(c, FALSE, OtherErr("unmarshal"))
      [] c.resp.kind = "krberr"  ->
            IF c.resp.code = KDC_ERR_PREAUTH_REQUIRED
            THEN Return(c, TRUE, NilErr)
            ELSE Return(c, FALSE, KRBError(c.resp.code))
      [] OTHER                   ->
            IF c.sends < 2 THEN [c EXCEPT !.pc = "send"]
            ELSE Return(c, FALSE, OtherErr("transport"))

\* TestUsername, lines 178-199, up to the call of DumpASRepHash.
ClassifyResponse(c) ==
    CASE c.resp.kind = "asrep"   -> [c EXCEPT !.pc = "dump"]
      [] c.resp.kind = "garbage" -> Return(c, FALSE, OtherErr("unmarshal"))
      [] c.resp.kind = "krberr"  ->
            IF c.resp.code = KDC_ERR_PREAUTH_REQUIRED
            THEN Return(c, TRUE, NilErr)
            ELSE Return(c, FALSE, KRBError(c.resp.code))
      [] OTHER                   -> Return(c, FALSE, OtherErr("transport"))

\* Variant of Classify that records the outcome of every exchange in the sink.
Classify_OutcomeToSink(p) ==
    /\ proc[p].pc = "classify"
    /\ proc' = [proc EXCEPT ![p] = ClassifyResponse(@)]
    /\ sink' = IF session.HashFile = "open" /\ proc[p].resp.kind # "asrep"
               THEN sink \o <<proc[p].user, "\n">>
               ELSE sink
    /\ UNCHANGED <<phase, session, nerr, calls, tRealm, tDC, tOut>>

Classify(p) ==
    /\ proc[p].pc = "classify"
    /\ proc' = [proc EXCEPT ![p] = ClassifyResponse(@)]
    /\ UNCHANGED <<phase, session, nerr, sink, calls, tRealm, tDC, tOut>>

\* --------------------------------------------------------- DumpASRepHash

EtypeString(e) ==
    CASE e = 3 -> "3" [] e = 18 -> "18" [] e = ETYPE_RC4 -> "23" [] OTHER -> "0"

\* util.ASRepToHashcat: the hash string of an AS-REP, or an error when its
\* encryption type has no crackable encoding.
ASRepToHashcat(c) ==
    IF c.resp.etype \in {18, ETYPE_RC4}
    THEN [hash |-> <<"$krb5asrep$", EtypeString(c.resp.etype), c.user>>, err |-> NilErr]
    ELSE [hash |-> <<>>, err |-> OtherErr("unsupported etype")]

\* Variant of HashLine without the line terminator.
HashLine_NoNewline(c) == ASRepToHashcat(c).hash

\* fmt.Sprintf("%s\n", hash), line 210.
HashLine(c) == ASRepToHashcat(c).hash \o <<"\n">>

\* DumpASRepHash, lines 203-209, and the return to TestUsername (line 187)
\* when nothing is to be written.
ConvertHash(c) ==
    IF ASRepToHashcat(c).err # NilErr
    THEN Return([c EXCEPT !.wrote = "convfail"], TRUE, NilErr)
    ELSE IF session.HashFile = "nil"
         THEN Return([c EXCEPT !.wrote = "nosink"], TRUE, NilErr)
         ELSE [c EXCEPT !.pc = "write"]

Dump(p) ==
    /\ proc[p].pc = "dump"
    /\ proc' = [proc EXCEPT ![p] = ConvertHash(@)]
    /\ UNCHANGED <<phase, session, nerr, sink, calls, tRealm, tDC, tOut>>

\* Variant of WriteResult that returns the write error to the caller.
WriteResult_Propagates(c, n) ==
    IF n = Len(HashLine(c))
    THEN Return([c EXCEPT !.wrote = "ok", !.n = n], TRUE, NilErr)
    ELSE Return([c EXCEPT !.wrote = "failed", !.n = n], FALSE, OtherErr("write"))

\* DumpASRepHash, lines 210-213, and TestUsername's return at line 187:
\* WriteString wrote n tokens of the line; n < Len(line) is a write error,
\* which is logged.
WriteResult(c, n) ==
    Return([c EXCEPT !.wrote = IF n = Len(HashLine(c)) THEN "ok" ELSE "failed",
                     !.n = n],
           TRUE, NilErr)

\* One WriteString on the shared *os.File: the bytes of one call are
\* appended together (the file serialises the writes of one handle and is
\* opened with O_APPEND).
WriteHash(p) ==
    /\ proc[p].pc = "write"
    /\ \E n \in 0..Len(HashLine(proc[p])) :
         /\ sink' = sink \o SubSeq(HashLine(proc[p]), 1, n)
         /\ proc' = [proc EXCEPT ![p] = WriteResult(@, n)]
    /\ UNCHANGED <<phase, session, nerr, calls, tRealm, tDC, tOut>>

\* ------------------------------------------------------ template harness

\* buildKrb5Template applied to the drawn arguments.
Render ==
    /\ tOut = <<>>
    /\ tOut' = buildKrb5Template(tRealm, tDC)
    /\ UNCHANGED <<phase, session, nerr, sink, proc, calls, tRealm, tDC>>

\* ------------------------------------------------------- specifications

\* A line an earlier run left in the hash file.
PriorLine == <<"$krb5asrep$", "23", "bob", "\n">>

Init ==
    /\ phase = "new"
    /\ session = ZeroSession
    /\ nerr = NilErr
    /\ sink \in {<<>>, PriorLine}
    /\ proc = [p \in Goroutines |-> IdleProc]
    /\ calls = 0
    /\ tRealm = <<>>
    /\ tDC = <<>>
    /\ tOut = <<>>

Next ==
    \/ Construct
    \/ \E p \in Goroutines, u \in LoginUsernames : StartLogin(p, u)
    \/ \E p \in Goroutines : CheckConfigured(p)
    \/ \E p \in Goroutines : Login(p)
    \/ \E p \in Goroutines, u \in Usernames : StartUsername(p, u)
    \/ \E p \in Goroutines : Marshal(p)
    \/ \E p \in Goroutines : SendToKDC(p)
    \/ \E p \in Goroutines : Classify(p)
    \/ \E p \in Goroutines : Dump(p)
    \/ \E p \in Goroutines : WriteHash(p)
    \/ \E p \in Goroutines : Finish(p)

Spec == Init /\ [][Next]_vars

\* The specification of buildKrb5Template alone: every realm the caller can
\* pass (an uppercased string) with every domain controller string.
InitTemplate ==
    /\ phase = "new"
    /\ session = ZeroSession
    /\ nerr = NilErr
    /\ sink = <<>>
    /\ proc = [p \in Goroutines |-> IdleProc]
    /\ calls = 0
    /\ tRealm \in {ToUpper(s) : s \in StringsUpTo(MaxLen)}
    /\ tDC \in StringsUpTo(MaxLen)
    /\ tOut = <<>>

NextTemplate == Render

SpecTemplate == InitTemplate /\ [][NextTemplate]_vars

\* ---------------------------------------------------------------- claims

UsernameDone(c) == c.kind = "username" /\ c.pc = "done"

LoginDone(c) == c.kind = "login" /\ c.pc = "done"

\* Number of line terminators in a file content.
RECURSIVE LineCount(_)
LineCount(s) ==
    IF s = <<>> THEN 0
    ELSE (IF Head(s) = "\n" THEN 1 ELSE 0) + LineCount(Tail(s))

\* The tokens a call's WriteString put into the sink.
Written(c) == SubSeq(HashLine(c), 1, c.n)

\* C1: a finished TestUsername call returned (true, nil) exactly when the
\* response was a valid AS-REP or a KRBError with code pre-authentication
\* required; on any other KRBError it returned (false, that KRBError); on a
\* transport failure or unparseable bytes it returned (false, err) with err
\* non-nil and not a KRBError; it never returned (false, nil).
C1_Classification ==
    \A p \in Goroutines :
        LET c == proc[p]
        IN  UsernameDone(c) =>
              /\ ~(~c.ok /\ c.err = NilErr)
              /\ c.ok => c.err = NilErr
              /\ c.sends = 1 =>
                   /\ c.ok <=> \/ c.resp.kind = "asrep"
                               \/ /\ c.resp.kind = "krberr"
                                  /\ c.resp.code = KDC_ERR_PREAUTH_REQUIRED
                   /\ (c.resp.kind = "krberr" /\ c.resp.code # KDC_ERR_PREAUTH_REQUIRED)
                        => (~c.ok /\ c.err = KRBError(c.resp.code))
                   /\ c.resp.kind \in {"neterr", "garbage"}
                        => (~c.ok /\ c.err # NilErr /\ c.err.kind # "krb")

\* One call ended on a transport failure, another on pre-authentication required.
C1_Witness ==
    \E p, q \in Goroutines :
        /\ UsernameDone(proc[p]) /\ proc[p].resp.kind = "neterr" /\ ~proc[p].ok
        /\ UsernameDone(proc[q]) /\ proc[q].resp.kind = "krberr" /\ proc[q].ok

\* C2 as stated: with a hash sink configured, every finished TestUsername
\* call that received a valid AS-REP returned (true, nil) and appended exactly
\* one newline-terminated hash line, whatever the encryption type.
C2_OneLinePerASRep ==
    \A p \in Goroutines :
        LET c == proc[p]
        IN  (UsernameDone(c) /\ c.resp.kind = "asrep" /\ session.HashFile = "open") =>
              /\ c.ok /\ c.err = NilErr
              /\ LineCount(Written(c)) = 1
              /\ Len(Written(c)) > 1
              /\ Written(c)[Len(Written(c))] = "\n"

\* C2 as amended: with a hash sink configured, every finished TestUsername
\* call that received a valid AS-REP returned (true, nil); it appended exactly
\* one newline-terminated hash line when the AS-REP converted to a hash and
\* WriteString wrote all of it, and no line terminator otherwise; the write
\* step appends the call's tokens to the end of the sink, growing its line
\* count by exactly one when the write succeeds.
C2_OneLinePerExportedHash ==
    /\ [](\A p \in Goroutines :
            LET c == proc[p]
            IN  (UsernameDone(c) /\ c.resp.kind = "asrep" /\ session.HashFile = "open") =>
                  /\ c.ok /\ c.err = NilErr
                  /\ c.wrote \in {"ok", "failed", "convfail"}
                  /\ c.wrote = "convfail" <=> ASRepToHashcat(c).err # NilErr
                  /\ c.wrote = "ok" =>
                       /\ LineCount(Written(c)) = 1
                       /\ Len(Written(c)) > 1
                       /\ Written(c)[Len(Written(c))] = "\n"
                  /\ c.wrote # "ok" => LineCount(Written(c)) = 0)
    /\ [][\A p \in Goroutines :
            (proc[p].pc = "write" /\ proc'[p].pc = "done") =>
              /\ sink' = sink \o Written(proc'[p])
              /\ LineCount(sink') =
                   LineCount(sink) + (IF proc'[p].wrote = "ok" THEN 1 ELSE 0)]_vars

\* A call exported a hash of the sink's second line: the file held a line
\* of an earlier run and the call added one.
C2_Witness ==
    \E p \in Goroutines :
        /\ UsernameDone(proc[p]) /\ proc[p].wrote = "ok"
        /\ session.HashFile = "open"
        /\ sink = PriorLine \o HashLine(proc[p])

\* C3: a TestUsername call whose exchange did not yield a valid AS-REP never
\* changes the sink: no step of such a call modifies it, and the call
\* returns (true, nil) on pre-authentication required, (false, KRBError) on
\* another KRBError and (false, non-Kerberos error) on a transport or parse
\* failure, having written nothing.
C3_SinkUntouched ==
    /\ [](\A p \in Goroutines :
            LET c == proc[p]
            IN  (UsernameDone(c) /\ c.resp.kind # "asrep") =>
                  /\ c.wrote = "none" /\ c.n = 0
                  /\ (c.resp.kind = "krberr" /\ c.resp.code = KDC_ERR_PREAUTH_REQUIRED)
                       => (c.ok /\ c.err = NilErr)
                  /\ (c.resp.kind = "krberr" /\ c.resp.code # KDC_ERR_PREAUTH_REQUIRED)
                       => (~c.ok /\ c.err.kind = "krb")
                  /\ c.resp.kind \in {"neterr", "garbage"}
                       => (~c.ok /\ c.err.kind = "other"))
    /\ [][\A p \in Goroutines :
            (proc'[p] # proc[p] /\ proc[p].kind = "username"
               /\ proc[p].resp.kind # "asrep") => sink' = sink]_vars

\* A call for a nonexistent principal ended with the earlier run's line
\* still the whole sink.
C3_Witness ==
    \E p \in Goroutines :
        /\ UsernameDone(proc[p])
        /\ proc[p].resp.kind = "krberr" /\ proc[p].resp.code = 6
        /\ ~proc[p].ok /\ proc[p].err.kind = "krb"
        /\ session.HashFile = "open" /\ sink = PriorLine

\* C4: when NewKerbruteSession returns an error the returned Session carries
\* no realm, configuration, KDC map or open hash sink; when it returns no
\* error the KDC map is non-empty.
C4_NoPartialSession ==
    /\ phase = "failed" =>
         /\ nerr # NilErr
         /\ session.Realm = <<>>
         /\ session.Config.isNil
         /\ session.Kdcs = <<>>
         /\ session.HashFile = "nil"
    /\ phase = "constructed" => (nerr = NilErr /\ session.Kdcs # <<>>)

\* A goroutine is inside the append of DumpASRepHash (lines 209-214).
InAppend(p) == proc[p].pc = "write"

\* s holds l as consecutive tokens.
Contiguous(l, s) ==
    \E i \in 0..(Len(s) - Len(l)) : SubSeq(s, i + 1, i + Len(l)) = l

\* C5: concurrent hash exports are serialized by explicit mutual exclusion:
\* no two goroutines are inside the append at once, and every exported hash
\* is in the sink as one complete contiguous newline-terminated line.
C5_SerializedExports ==
    /\ \A p, q \in Goroutines : (p # q /\ InAppend(p)) => ~InAppend(q)
    /\ \A p \in Goroutines :
         (UsernameDone(proc[p]) /\ proc[p].wrote = "ok")
            => Contiguous(HashLine(proc[p]), sink)

\* out holds the line l, after the template's indentation if any.
HasLine(out, l) ==
    \E i \in 1..Len(out) : out[i] = l \/ out[i] = <<"\t">> \o l

\* C6: the rendered configuration is the DNS-discovery template with
\* default_realm = R when H is empty, and otherwise holds the lines kdc = H
\* and admin_server = H with H verbatim; no character of R or H is rewritten.
C6_Verbatim ==
    tOut # <<>> =>
        IF tDC = <<>>
        THEN tOut = << <<"[libdefaults]">>, <<"dns_lookup_kdc = true">>,
                       <<"default_realm = ">> \o tRealm >>
        ELSE /\ HasLine(tOut, <<"kdc = ">> \o tDC)
             /\ HasLine(tOut, <<"admin_server = ">> \o tDC)
             /\ HasLine(tOut, <<"default_realm = ">> \o tRealm)

\* C7: TestLogin invokes the client's Destroy exactly once on every exit
\* path (client not configured, login succeeded, login failed): a finished
\* call has destroyed its client once, and no call destroys it earlier.
C7_DestroyOnEveryExit ==
    \A p \in Goroutines :
        LET c == proc[p]
        IN  c.kind = "login" =>
              /\ c.pc = "done" => (~c.live /\ c.destroys = 1)
              /\ c.pc # "done" => (c.live /\ c.destroys = 0)

\* A call ended at the early validation failure, another after a login.
C7_Witness ==
    \E p, q \in Goroutines :
        /\ LoginDone(proc[p]) /\ proc[p].user = "" /\ ~proc[p].ok
        /\ proc[p].err # NilErr /\ proc[p].destroys = 1
        /\ LoginDone(proc[q]) /\ proc[q].user # "" /\ proc[q].ok

\* C8: when the AS-REP converts to a hash but the sink write fails, the
\* TestUsername call still returns (true, nil); nothing is raised, the
\* Session stays usable and the goroutine goes on to its next probe.
C8_WriteFailureSwallowed ==
    \A p \in Goroutines :
        LET c == proc[p]
        IN  (UsernameDone(c) /\ c.resp.kind = "asrep"
               /\ ASRepToHashcat(c).err = NilErr /\ session.HashFile = "open"
               /\ c.n < Len(HashLine(c))) =>
              /\ c.ok /\ c.err = NilErr
              /\ phase = "constructed"
              /\ ENABLED Finish(p)

\* A write failed part-way and the other goroutine's later probe is under way.
C8_Witness ==
    \E p, q \in Goroutines :
        /\ UsernameDone(proc[p]) /\ proc[p].wrote = "failed" /\ proc[p].n = 1
        /\ proc[p].ok
        /\ p # q /\ proc[q].pc = "classify"

\* C9: a TestUsername call sends at most once; after the send the call never
\* is in the sending (or request building) position again; and a call whose
\* AS-REQ could not be marshalled returned (false, err) having sent nothing.
C9_SingleExchange ==
    /\ [](\A p \in Goroutines :
            LET c == proc[p]
            IN  /\ c.sends <= 1
                /\ c.pc \in {"classify", "dump", "write"} => c.sends = 1
                /\ c.pc \in {"marshal", "send"} => c.sends = 0
                /\ (UsernameDone(c) /\ c.resp.kind = "none")
                     => (c.sends = 0 /\ ~c.ok /\ c.err # NilErr))
    /\ [][\A p \in Goroutines :
            proc[p].sends = 1 => proc'[p].pc \notin {"marshal", "send"}]_vars

\* One call ended after its single exchange, another without sending.
C9_Witness ==
    \E p, q \in Goroutines :
        /\ UsernameDone(proc[p]) /\ proc[p].sends = 1 /\ proc[p].resp.kind = "garbage"
        /\ UsernameDone(proc[q]) /\ proc[q].sends = 0 /\ ~proc[q].ok

\* C10: once constructed, no probe step changes the Session: domain, realm,
\* KDC map, configuration (encryption types, proxy) and safe-mode flag keep
\* their values of construction.
C10_SessionReadOnly ==
    [][phase = "constructed" =>
         (session' = session /\ phase' = phase /\ nerr' = nerr)]_vars

\* Both goroutines finished probes, one of them having changed the sink, on
\* a Session with a proxy, safe mode and downgraded encryption.
C10_Witness ==
    /\ phase = "constructed"
    /\ session.SafeMode /\ session.Config.socks5 # ""
    /\ session.Config.etypes = <<ETYPE_RC4>>
    /\ \E p, q \in Goroutines :
         /\ UsernameDone(proc[p]) /\ proc[p].wrote = "ok" /\ sink # <<>>
         /\ LoginDone(proc[q])

====
